---------------------------- MODULE Spec2Model ----------------------------
(***************************************************************************)
(* Machine-number codec of src/1/ex1_machine_numbers.py: fl1 (decode),     *)
(* fl2 (set characterisation), fl3 (encode) and fl4 (addition).            *)
(*                                                                         *)
(* The Python code computes in IEEE-754 binary64.  Its results depend on   *)
(* the rounding of 3**k for k < 0, of the products and quotients with it   *)
(* and of the sum in fl4, so the model carries every real quantity as a    *)
(* binary64 value: a record [sgn, man, exp] that stands for                *)
(* sgn * man * 2^exp with man a 53-bit natural.  TLC's integers have 32    *)
(* bits, so man is a little-endian sequence of base-2^15 limbs.            *)
(***************************************************************************)
EXTENDS Integers, Sequences, FiniteSets, TLC

-----------------------------------------------------------------------------
(* Natural numbers of arbitrary size: little-endian limbs, no high zeros.  *)

BASE == 32768
LIMB == 15

Pow2Tab == << 1, 2, 4, 8, 16, 32, 64, 128, 256, 512, 1024, 2048, 4096, 8192,
              16384, 32768 >>
Pow2(n) == Pow2Tab[n + 1]

RECURSIVE BigNorm(_)
BigNorm(a) ==
    IF a = << >> THEN << >>
    ELSE IF a[Len(a)] = 0 THEN BigNorm(SubSeq(a, 1, Len(a) - 1))
    ELSE a

BigFromNat(n) ==
    BigNorm(<< n % BASE, (n \div BASE) % BASE, n \div (BASE * BASE) >>)

LimbAt(a, i) == IF i <= Len(a) THEN a[i] ELSE 0

(* a + b + c from limb i up, c the carry into limb i *)
RECURSIVE BigAddAt(_, _, _, _)
BigAddAt(a, b, i, c) ==
    IF i > Len(a) /\ i > Len(b)
    THEN (IF c = 0 THEN << >> ELSE << c >>)
    ELSE << (LimbAt(a, i) + LimbAt(b, i) + c) % BASE >>
         \o BigAddAt(a, b, i + 1, (LimbAt(a, i) + LimbAt(b, i) + c) \div BASE)

BigAdd(a, b) == BigAddAt(a, b, 1, 0)

(* a - b - c from limb i up for a >= b, c the borrow out of limb i - 1 *)
RECURSIVE BigSubAt(_, _, _, _)
BigSubAt(a, b, i, c) ==
    IF i > Len(a) THEN << >>
    ELSE IF a[i] - LimbAt(b, i) - c < 0
    THEN << a[i] - LimbAt(b, i) - c + BASE >> \o BigSubAt(a, b, i + 1, 1)
    ELSE << a[i] - LimbAt(b, i) - c >> \o BigSubAt(a, b, i + 1, 0)

BigSub(a, b) == BigNorm(BigSubAt(a, b, 1, 0))

(* -1, 0, 1 as a < b, a = b, a > b; both without high zeros *)
RECURSIVE BigCmpAt(_, _, _)
BigCmpAt(a, b, i) ==
    IF i = 0 THEN 0
    ELSE IF a[i] < b[i] THEN -1
    ELSE IF a[i] > b[i] THEN 1
    ELSE BigCmpAt(a, b, i - 1)

BigCmp(a, b) ==
    IF Len(a) < Len(b) THEN -1
    ELSE IF Len(a) > Len(b) THEN 1
    ELSE BigCmpAt(a, b, Len(a))

(* a * d + c from limb i up, for one limb d *)
RECURSIVE BigMulSmallAt(_, _, _, _)
BigMulSmallAt(a, d, i, c) ==
    IF i > Len(a)
    THEN (IF c = 0 THEN << >> ELSE << c >>)
    ELSE << (a[i] * d + c) % BASE >>
         \o BigMulSmallAt(a, d, i + 1, (a[i] * d + c) \div BASE)

BigMulSmall(a, d) == BigNorm(BigMulSmallAt(a, d, 1, 0))

RECURSIVE BigMulAt(_, _, _)
BigMulAt(a, b, i) ==
    IF i > Len(b) THEN << >>
    ELSE BigAdd(BigMulSmall(a, b[i]), << 0 >> \o BigMulAt(a, b, i + 1))

BigMul(a, b) == BigNorm(BigMulAt(a, b, 1))

SmallBitLen(n) ==
    IF n = 0 THEN 0
    ELSE CHOOSE k \in 1..LIMB : Pow2(k - 1) <= n /\ n < Pow2(k)

BigBitLen(a) ==
    IF a = << >> THEN 0 ELSE LIMB * (Len(a) - 1) + SmallBitLen(a[Len(a)])

BigShl(a, n) ==
    IF a = << >> THEN << >>
    ELSE [j \in 1..(n \div LIMB) |-> 0] \o BigMulSmall(a, Pow2(n % LIMB))

(* floor(a / 2^n) *)
BigShr(a, n) ==
    LET w == n \div LIMB
        p == Pow2(n % LIMB)
    IN  IF w >= Len(a) THEN << >>
        ELSE BigNorm([j \in 1..(Len(a) - w) |->
                 (a[j + w] \div p) + (LimbAt(a, j + w + 1) % p) * (BASE \div p)])

(* largest digit d in lo..hi-1 with b * d <= r, given b * lo <= r < b * hi *)
RECURSIVE QuoDigit(_, _, _, _)
QuoDigit(r, b, lo, hi) ==
    IF hi - lo = 1 THEN lo
    ELSE IF BigCmp(BigMulSmall(b, (lo + hi) \div 2), r) <= 0
    THEN QuoDigit(r, b, (lo + hi) \div 2, hi)
    ELSE QuoDigit(r, b, lo, (lo + hi) \div 2)

(* schoolbook division of a by b > 0, from limb i of a down; r is the      *)
(* remainder of the limbs above limb i, q the quotient limbs found so far  *)
RECURSIVE BigDivStep(_, _, _, _, _)
RECURSIVE BigDivDigit(_, _, _, _, _)
RECURSIVE BigDivSub(_, _, _, _, _, _)

BigDivStep(a, b, i, r, q) ==
    IF i = 0 THEN [quo |-> q, rem |-> r]
    ELSE BigDivDigit(a, b, i, BigNorm(<< a[i] >> \o r), q)

(* r2: the remainder with limb i of a brought down                         *)
BigDivDigit(a, b, i, r2, q) ==
    BigDivSub(a, b, i, r2, q, QuoDigit(r2, b, 0, BASE))

(* d: the quotient limb of r2 by b                                         *)
BigDivSub(a, b, i, r2, q, d) ==
    IF d = 0 THEN BigDivStep(a, b, i - 1, r2, << 0 >> \o q)
    ELSE BigDivStep(a, b, i - 1, BigSub(r2, BigMulSmall(b, d)), << d >> \o q)

BigDivNorm(d) == [quo |-> BigNorm(d.quo), rem |-> d.rem]

(* quotient and remainder; the limbs of a above the length of b are less   *)
(* than b and start the remainder                                          *)
BigDivMod(a, b) ==
    IF Len(a) < Len(b) THEN [quo |-> << >>, rem |-> a]
    ELSE BigDivNorm(BigDivStep(a, b, Len(a) - Len(b) + 1,
                        BigNorm(SubSeq(a, Len(a) - Len(b) + 2, Len(a))),
                        << >>))

-----------------------------------------------------------------------------
(* binary64 values and the four operations on them, round to nearest even. *)
(* Exponents stay far from the binary64 limits for every input the model   *)
(* draws, so neither overflow nor subnormal results are represented.  The  *)
(* operations are cut into steps, each taking the values found so far.     *)

PREC == 53

FZero == [sgn |-> 0, man |-> << >>, exp |-> 0]

(* q2: the PREC-bit mantissa after rounding, PREC + 1 bits after a carry   *)
FRoundPack(s, q2, e) ==
    IF BigBitLen(q2) > PREC
    THEN [sgn |-> s, man |-> BigShr(q2, 1), exp |-> e + 1]
    ELSE [sgn |-> s, man |-> q2, exp |-> e]

(* q: the mantissa cut to PREC bits; c: the bits cut off against one half  *)
(* of the last place kept                                                  *)
FRoundUp(s, q, e, c) ==
    IF c > 0 \/ (c = 0 /\ q[1] % 2 = 1)
    THEN FRoundPack(s, BigAdd(q, << 1 >>), e)
    ELSE [sgn |-> s, man |-> q, exp |-> e]

FRoundCut(s, m, e, sh, q) ==
    FRoundUp(s, q, e + sh,
             BigCmp(BigSub(m, BigShl(q, sh)), BigShl(<< 1 >>, sh - 1)))

(* L: the number of bits of m                                              *)
FRoundLen(s, m, e, L) ==
    IF L <= PREC
    THEN [sgn |-> s, man |-> BigShl(m, PREC - L), exp |-> e - (PREC - L)]
    ELSE FRoundCut(s, m, e, L - PREC, BigShr(m, L - PREC))

(* the binary64 value nearest to s * m * 2^e, ties to even                 *)
FRound(s, m, e) ==
    IF m = << >> \/ s = 0 THEN FZero
    ELSE FRoundLen(s, m, e, BigBitLen(m))

FFromInt(n) ==
    FRound(IF n > 0 THEN 1 ELSE IF n < 0 THEN -1 ELSE 0,
           BigFromNat(IF n >= 0 THEN n ELSE -n), 0)

(* n / 2^d for integers n and d >= 0: exactly representable *)
FDyadic(n, d) ==
    FRound(IF n > 0 THEN 1 ELSE IF n < 0 THEN -1 ELSE 0,
           BigFromNat(IF n >= 0 THEN n ELSE -n), -d)

FNeg(a) == [a EXCEPT !.sgn = -a.sgn]

FAbs(a) == [a EXCEPT !.sgn = IF a.sgn = 0 THEN 0 ELSE 1]

FMul(a, b) ==
    IF a.sgn = 0 \/ b.sgn = 0 THEN FZero
    ELSE FRound(a.sgn * b.sgn, BigMul(a.man, b.man), a.exp + b.exp)

(* d: quotient and remainder of the mantissas, the dividend shifted by     *)
(* PREC + 3 bits; a last bit stands for a remainder # 0                    *)
FDivRound(a, b, d) ==
    FRound(a.sgn * b.sgn,
           BigAdd(BigAdd(d.quo, d.quo),
                  IF d.rem = << >> THEN << >> ELSE << 1 >>),
           a.exp - b.exp - (PREC + 4))

FDiv(a, b) ==
    IF a.sgn = 0 \/ b.sgn = 0 THEN FZero
    ELSE FDivRound(a, b, BigDivMod(BigShl(a.man, PREC + 3), b.man))

(* am, bm: the mantissas at the common exponent e; c: their order          *)
FAddRound(sa, am, sb, bm, e, c) ==
    FRound(IF sa = sb \/ c > 0 THEN sa ELSE IF c < 0 THEN sb ELSE 0,
           IF sa = sb THEN BigAdd(am, bm)
           ELSE IF c >= 0 THEN BigSub(am, bm)
           ELSE BigSub(bm, am),
           e)

FAddMan(sa, am, sb, bm, e) ==
    FAddRound(sa, am, sb, bm, e, BigCmp(am, bm))

FAddAligned(a, b, e) ==
    FAddMan(a.sgn, BigShl(a.man, a.exp - e), b.sgn, BigShl(b.man, b.exp - e),
            e)

FAdd(a, b) ==
    IF a.sgn = 0 THEN b
    ELSE IF b.sgn = 0 THEN a
    ELSE FAddAligned(a, b, IF a.exp < b.exp THEN a.exp ELSE b.exp)

FSub(a, b) == FAdd(a, FNeg(b))

(* order of binary64 values from sign, exponent and mantissa: -1, 0, 1;    *)
(* the mantissas of two non-zero values have PREC bits each               *)
FMagCmp(a, b) ==
    IF a.exp < b.exp THEN -1
    ELSE IF a.exp > b.exp THEN 1
    ELSE BigCmp(a.man, b.man)

FCmp(a, b) ==
    IF a.sgn < b.sgn THEN -1
    ELSE IF a.sgn > b.sgn THEN 1
    ELSE IF a.sgn = 0 THEN 0
    ELSE a.sgn * FMagCmp(a, b)

FLt(a, b) == FCmp(a, b) < 0
FLe(a, b) == FCmp(a, b) <= 0
FGt(a, b) == FCmp(a, b) > 0
FGe(a, b) == FCmp(a, b) >= 0

FOne == FFromInt(1)

(* the result of np.nan: no number, never equal to or ordered with one    *)
FNaN == [sgn |-> 2, man |-> << >>, exp |-> 0]

FMaxOf(S) == CHOOSE x \in S : \A y \in S : FLe(y, x)
FMinOf(S) == CHOOSE x \in S : \A y \in S : FLe(x, y)

-----------------------------------------------------------------------------
(* Results of a call: a value, or the exception it raised.                 *)

Ok(v)  == [tag |-> "ok", val |-> v]
Err(e) == [tag |-> e, val |-> << >>]

IsBit(b) == b = 0 \/ b = 1

(* The entries of a vector and the parameters t, k1, k2 are Python         *)
(* numbers.  The integers among them are kept as integers; NonInteger      *)
(* stands for a number that fails the integer tests of the code, such as   *)
(* the characteristic 1.5 or the float 2.5 passed for t.                   *)
NonInteger == 99
IsInteger(x) == x # NonInteger

Mantissa(v) == SubSeq(v, 1, Len(v) - 1)
Characteristic(v) == v[Len(v)]
(* AllZero testing the fraction bits only, the sign bit left out          *)
AllZeroFraction(m) == \A i \in 2..Len(m) : m[i] = 0

AllZero(m) == \A i \in 1..Len(m) : m[i] = 0

(* 3^n for 0 <= n <= 19 *)
Pow3Tab == << 1, 3, 9, 27, 81, 243, 729, 2187, 6561, 19683, 59049, 177147,
              531441, 1594323, 4782969, 14348907, 43046721, 129140163,
              387420489, 1162261467 >>
BigPow3(n) == BigFromNat(Pow3Tab[n + 1])

(* 3**c with a Python int c: an exact int for c >= 0 (converted to binary64 *)
(* by the operation that uses it), the binary64 power for c < 0, which is  *)
(* the correctly rounded quotient 1 / 3^-c.  The characteristics the model *)
(* reaches stay within LogRange.                                           *)
LogRange == 12

(* p: the binary64 value of 3^|c|                                          *)
Pow3Quot(c, p) == IF c >= 0 THEN p ELSE FDiv(FOne, p)

Pow3FTab ==
    [c \in (-LogRange - 1)..(LogRange + 1) |->
        Pow3Quot(c, FRound(1, BigPow3(IF c >= 0 THEN c ELSE -c), 0))]

Pow3F(c) == Pow3FTab[c]

(* FracSum with the weights counted from 0: bit * 2**-(i - 1)              *)
RECURSIVE FracSumFromZero(_, _, _)
FracSumFromZero(frac_bits, i, acc) ==
    IF i > Len(frac_bits) THEN acc
    ELSE FracSumFromZero(frac_bits, i + 1,
             FAdd(acc, FMul(FFromInt(frac_bits[i]), FDyadic(1, i - 1))))

(* the loop of fl1 over the fraction bits: fractional_part += bit * 2**-i  *)
RECURSIVE FracSum(_, _, _)
FracSum(frac_bits, i, acc) ==
    IF i > Len(frac_bits) THEN acc
    ELSE FracSum(frac_bits, i + 1,
                 FAdd(acc, FMul(FFromInt(frac_bits[i]), FDyadic(1, i))))

(* fl1 with the test for zero before the test of the characteristic        *)
fl1ZeroFirst(machine_vec) ==
    IF Len(machine_vec) < 2 THEN Err("ValueError")
    ELSE IF \E i \in 1..(Len(machine_vec) - 1) : ~IsBit(machine_vec[i])
    THEN Err("ValueError")
    ELSE IF AllZero(Mantissa(machine_vec)) THEN Ok(FZero)
    ELSE IF ~IsInteger(Characteristic(machine_vec)) THEN Err("ValueError")
    ELSE Ok(FMul(FMul(FFromInt(IF machine_vec[1] = 0 THEN 1 ELSE -1),
                      FAdd(FOne,
                           FracSum(Tail(Mantissa(machine_vec)), 1, FZero))),
                 Pow3F(Characteristic(machine_vec))))

fl1(machine_vec) ==
    IF Len(machine_vec) < 2 THEN Err("ValueError")
    ELSE LET mantissa_bits  == Mantissa(machine_vec)
             characteristic == Characteristic(machine_vec)
         IN  IF \E i \in 1..Len(mantissa_bits) : ~IsBit(mantissa_bits[i])
             THEN Err("ValueError")
             ELSE IF ~IsInteger(characteristic) THEN Err("ValueError")
             ELSE IF AllZero(mantissa_bits) THEN Ok(FZero)
             ELSE LET sign == IF mantissa_bits[1] = 0 THEN 1 ELSE -1
                      fractional_part ==
                          FracSum(Tail(mantissa_bits), 1, FZero)
                  IN  Ok(FMul(FMul(FFromInt(sign),
                                   FAdd(FOne, fractional_part)),
                              Pow3F(characteristic)))

(* all t-bit patterns, as fl2 generates them from 0 .. 2**t - 1            *)
MantissaCombinations(t) == [1..t -> {0, 1}]

(* lines 120-136: the parameters of the set from its elements, the         *)
(* positive ones and those above 1                                         *)
fl2Params(machine_numbers, positive_numbers, larger_than_1) ==
    Ok([M_inf |-> FMaxOf({FAbs(x) : x \in machine_numbers}),
        eps_0 |-> FMinOf(positive_numbers),
        eps_1 |-> IF larger_than_1 # {}
                  THEN FSub(FMinOf(larger_than_1), FOne)
                  ELSE FNaN,
        num_elements |-> Cardinality(machine_numbers)])

(* fl2Positive taking every positive number for one above 1                *)
fl2PositiveUnfiltered(machine_numbers, positive_numbers) ==
    IF positive_numbers = {} THEN Err("ValueError")
    ELSE fl2Params(machine_numbers, positive_numbers, positive_numbers)

(* min() of an empty list raises ValueError                                *)
fl2Positive(machine_numbers, positive_numbers) ==
    IF positive_numbers = {} THEN Err("ValueError")
    ELSE fl2Params(machine_numbers, positive_numbers,
                   {x \in positive_numbers : FGt(x, FOne)})

(* fl2Numbers counting zero among the positive numbers                     *)
fl2NumbersWithZero(machine_numbers) ==
    fl2Positive(machine_numbers, {x \in machine_numbers : x.sgn >= 0})

fl2Numbers(machine_numbers) ==
    fl2Positive(machine_numbers, {x \in machine_numbers : x.sgn > 0})

(* fl2 with the loop over the characteristics ending at k2 - 1             *)
fl2ShortRange(t, k1, k2) ==
    IF ~IsInteger(t) \/ t <= 0 THEN Err("ValueError")
    ELSE IF ~IsInteger(k1) \/ ~IsInteger(k2) THEN Err("ValueError")
    ELSE IF k1 >= k2 THEN Err("ValueError")
    ELSE fl2Numbers({FZero} \cup
                    {fl1(m \o << k >>).val :
                         m \in {mm \in MantissaCombinations(t) : ~AllZero(mm)},
                         k \in k1..(k2 - 1)})

fl2(t, k1, k2) ==
    IF ~IsInteger(t) \/ t <= 0 THEN Err("ValueError")
    ELSE IF ~IsInteger(k1) \/ ~IsInteger(k2) THEN Err("ValueError")
    ELSE IF k1 >= k2 THEN Err("ValueError")
    ELSE fl2Numbers({FZero} \cup
                    {fl1(m \o << k >>).val :
                         m \in {mm \in MantissaCombinations(t) : ~AllZero(mm)},
                         k \in k1..k2})

-----------------------------------------------------------------------------
(* Bounds of the model: mantissa widths 1..MaxT, characteristics within    *)
(* -MaxK..MaxK, upper ends of the ranges of fl3 up to MaxK2, real inputs   *)
(* n / RDen with |n| <= RMax.                                              *)

MaxT == 3
MaxK == 2
MaxK2 == 5
RDen == 3
RMax == 12

(* fl4 widens the characteristics of its operands by 2 and then by 3 more  *)
KRange == MaxK + 5

(* fl2 is a pure function of (t, k1, k2): the calls that fl3 makes read    *)
(* its result from a table over the parameters the model reaches           *)
fl2Tab ==
    [t \in 1..MaxT, k1 \in -KRange..KRange, k2 \in -KRange..KRange |->
        fl2(t, k1, k2)]

fl2Memo(t, k1, k2) ==
    IF t <= MaxT /\ k1 >= -KRange /\ k2 <= KRange
    THEN fl2Tab[t, k1, k2]
    ELSE fl2(t, k1, k2)

-----------------------------------------------------------------------------
(* fl3: real number to machine number.                                     *)

(* the binary64 value next above a > 0                                     *)
FNextUp(a) == FRound(a.sgn, BigAdd(a.man, << 1 >>), a.exp)

(* int(np.floor(np.log(a) / np.log(3))) for a > 0.  For the inputs the     *)
(* model draws (below 3^8, and none just below a power of 3) the quotient  *)
(* of the two binary64 logarithms has floor k exactly when a lies between  *)
(* the binary64 values 3**k and 3**(k+1), with one exception: np.log has   *)
(* the same value at 3**5 and at the binary64 value next above it, and the *)
(* quotient is 4.999999999999999 there.                                    *)
LogLowAt(p) == {p, FNextUp(p)}
LogLow == LogLowAt(Pow3F(5))

(* a lies between the entries kk and kk + 1 of the table of powers         *)
Between(a, tab, kk) == FLt(a, tab[kk + 1]) /\ FGe(a, tab[kk])

FloorLogAdjust(a, k) == IF a \in LogLow THEN k - 1 ELSE k

FloorLog3(a) ==
    FloorLogAdjust(a, CHOOSE kk \in (-LogRange - 1)..LogRange :
                          Between(a, Pow3FTab, kk))

(* 1 - np.finfo(float).eps *)
JustUnderOne == FRound(1, BigSub(BigShl(<< 1 >>, 52), << 1 >>), -52)

FTwo == FFromInt(2)
FHalf == FDyadic(1, 1)

(* the doubling loop of fl3: bit i is 1 when the doubled remainder reaches *)
(* 1                                                                       *)
RECURSIVE FracBits(_, _)
RECURSIVE FracBit(_, _)

FracBits(temp_frac, n) ==
    IF n = 0 THEN << >> ELSE FracBit(FMul(temp_frac, FTwo), n)

(* d: the doubled remainder                                                *)
FracBit(d, n) ==
    IF FGe(d, FOne)
    THEN << 1 >> \o FracBits(FSub(d, FOne), n - 1)
    ELSE << 0 >> \o FracBits(d, n - 1)

(* the carry loop of fl3 from bit i down to bit 1, carry = 1 on entry; the *)
(* result is the bits and the carry left when the loop ends                *)
RECURSIVE Ripple(_, _)
Ripple(frac_bits, i) ==
    IF i = 0 THEN [bits |-> frac_bits, carry |-> 1]
    ELSE IF frac_bits[i] = 0
    THEN [bits |-> [frac_bits EXCEPT ![i] = 1], carry |-> 0]
    ELSE Ripple([frac_bits EXCEPT ![i] = 0], i - 1)

(* Zeros one entry short                                                   *)
ZerosShort(n) == [i \in 1..(n - 1) |-> 0]

Zeros(n) == [i \in 1..n |-> 0]
Ones(n) == [i \in 1..n |-> 1]

(* The result of fl3 carries, next to the value or the exception, the      *)
(* branches the call went through.  The body is cut at the tests of the    *)
(* code, in program order.                                                 *)
Raise(e, p) == [tag |-> e, val |-> << >>, path |-> p]
Done(v, p) == [tag |-> "ok", val |-> v, path |-> p]

(* fl3Carry with one zero too many after the carry                         *)
fl3CarryLong(t, k2, sign_bit, k, p, rp) ==
    IF rp.carry = 1 /\ k < k2
    THEN Done(<< sign_bit >> \o Zeros(t) \o << k + 1 >>,
              p \cup {"round", "ripple", "k_inc"})
    ELSE Done(<< sign_bit >> \o rp.bits \o << k >>, p \cup {"round", "ripple"})

(* lines 269-284: rp is the result of the carry loop                       *)
fl3Carry(t, k2, sign_bit, k, p, rp) ==
    IF rp.carry = 1 /\ k < k2
    THEN Done(<< sign_bit >> \o Zeros(t - 1) \o << k + 1 >>,
              p \cup {"round", "ripple", "k_inc"})
    ELSE Done(<< sign_bit >> \o rp.bits \o << k >>, p \cup {"round", "ripple"})

(* lines 264-290: correct the last bit when the error is above 0.5         *)
fl3Verify(t, k2, sign_bit, k, frac_bits, p, relative_error) ==
    IF ~FGt(relative_error, FHalf)
    THEN Done(<< sign_bit >> \o frac_bits \o << k >>, p)
    ELSE IF t - 1 = 0 THEN Raise("IndexError", p \cup {"round"})
    ELSE IF frac_bits[t - 1] = 0
    THEN Done(<< sign_bit >> \o [frac_bits EXCEPT ![t - 1] = 1] \o << k >>,
              p \cup {"round", "set_last"})
    ELSE fl3Carry(t, k2, sign_bit, k, p, Ripple(frac_bits, t - 1))

(* lines 254-262: assemble, decode again, relative error                   *)
fl3Assemble(real_num, t, k2, sign_bit, k, frac_bits, p) ==
    fl3Verify(t, k2, sign_bit, k, frac_bits, p,
              FDiv(FAbs(FSub(fl1(<< sign_bit >> \o frac_bits \o << k >>).val,
                             real_num)),
                   FAbs(real_num)))

(* lines 234-252: the fraction clamped into [0, 1), its bits               *)
fl3Fraction(real_num, t, k2, sign_bit, k, p, frac0) ==
    fl3Assemble(real_num, t, k2, sign_bit, k,
                FracBits(IF frac0.sgn < 0 THEN FZero
                         ELSE IF FGe(frac0, FOne) THEN JustUnderOne
                         ELSE frac0,
                         t - 1),
                IF frac0.sgn < 0 \/ FGe(frac0, FOne)
                THEN p \cup {"frac_clamped"} ELSE p)

(* lines 231-232: mantissa_value = abs_num / 3**k and its fraction         *)
fl3Mantissa(real_num, t, k2, sign_bit, k, p) ==
    fl3Fraction(real_num, t, k2, sign_bit, k, p,
                FSub(FDiv(FAbs(real_num), Pow3F(k)), FOne))

(* lines 216-228: sign, the characteristic k0 clamped into [k1, k2]        *)
fl3Characteristic(real_num, t, k1, k2, k0) ==
    fl3Mantissa(real_num, t, k2,
                IF real_num.sgn > 0 THEN 0 ELSE 1,
                IF k0 < k1 THEN k1 ELSE IF k0 > k2 THEN k2 ELSE k0,
                IF k0 < k1 \/ k0 > k2 THEN {"k_clamped"} ELSE {})

(* fl3Range rejecting the bounds eps_0 and M_inf too                       *)
fl3RangeStrict(real_num, t, k1, k2, set) ==
    IF set.tag # "ok" THEN Raise(set.tag, {"fl2_raised"})
    ELSE IF FLe(FAbs(real_num), set.val.eps_0)
    THEN Raise("ValueError", {"too_small"})
    ELSE IF FGe(FAbs(real_num), set.val.M_inf)
    THEN Raise("ValueError", {"too_large"})
    ELSE fl3Characteristic(real_num, t, k1, k2, FloorLog3(FAbs(real_num)))

(* lines 207-222: range check against the parameters of fl2                *)
fl3Range(real_num, t, k1, k2, set) ==
    IF set.tag # "ok" THEN Raise(set.tag, {"fl2_raised"})
    ELSE IF FLt(FAbs(real_num), set.val.eps_0)
    THEN Raise("ValueError", {"too_small"})
    ELSE IF FGt(FAbs(real_num), set.val.M_inf)
    THEN Raise("ValueError", {"too_large"})
    ELSE fl3Characteristic(real_num, t, k1, k2, FloorLog3(FAbs(real_num)))

(* np.isscalar(real_num) and np.isreal(real_num): a binary64 value passes, *)
(* a complex number with an imaginary part does not                        *)
IsRealScalar(x) == "sgn" \in DOMAIN x

(* fl3 with the test for zero after the call of fl2                        *)
fl3ZeroLate(real_num, t, k1, k2) ==
    IF ~IsInteger(t) \/ t <= 0 THEN Raise("ValueError", {"bad_t"})
    ELSE IF ~IsInteger(k1) \/ ~IsInteger(k2)
    THEN Raise("ValueError", {"bad_k_type"})
    ELSE IF k1 >= k2 THEN Raise("ValueError", {"bad_k"})
    ELSE IF ~IsRealScalar(real_num) THEN Raise("ValueError", {"bad_r"})
    ELSE IF fl2Memo(t, k1, k2).tag # "ok"
    THEN Raise(fl2Memo(t, k1, k2).tag, {"fl2_raised"})
    ELSE IF real_num.sgn = 0 THEN Done(Zeros(t) \o << 0 >>, {"zero"})
    ELSE fl3Range(real_num, t, k1, k2, fl2Memo(t, k1, k2))

(* fl3 with the test for zero before the validation of t, k1, k2           *)
fl3ZeroFirst(real_num, t, k1, k2) ==
    IF IsRealScalar(real_num) /\ real_num.sgn = 0
    THEN Done(Zeros(t) \o << 0 >>, {"zero"})
    ELSE IF ~IsInteger(t) \/ t <= 0 THEN Raise("ValueError", {"bad_t"})
    ELSE IF ~IsInteger(k1) \/ ~IsInteger(k2)
    THEN Raise("ValueError", {"bad_k_type"})
    ELSE IF k1 >= k2 THEN Raise("ValueError", {"bad_k"})
    ELSE IF ~IsRealScalar(real_num) THEN Raise("ValueError", {"bad_r"})
    ELSE fl3Range(real_num, t, k1, k2, fl2Memo(t, k1, k2))

(* lines 187-207: validation, zero, the call of fl2                        *)
fl3(real_num, t, k1, k2) ==
    IF ~IsInteger(t) \/ t <= 0 THEN Raise("ValueError", {"bad_t"})
    ELSE IF ~IsInteger(k1) \/ ~IsInteger(k2)
    THEN Raise("ValueError", {"bad_k_type"})
    ELSE IF k1 >= k2 THEN Raise("ValueError", {"bad_k"})
    ELSE IF ~IsRealScalar(real_num) THEN Raise("ValueError", {"bad_r"})
    ELSE IF real_num.sgn = 0 THEN Done(Zeros(t) \o << 0 >>, {"zero"})
    ELSE fl3Range(real_num, t, k1, k2, fl2Memo(t, k1, k2))

-----------------------------------------------------------------------------
(* fl4: addition of two machine numbers.                                   *)

Min(a, b) == IF a < b THEN a ELSE b

(* Max taking its first argument                                           *)
MaxFirst(a, b) == a

Max(a, b) == IF a > b THEN a ELSE b

(* fl4Retry saturating at the upper bound of the second range              *)
fl4RetryWide(sum_result, t, max_k, try2) ==
    IF try2.tag # "ValueError"
    THEN [tag |-> try2.tag, val |-> try2.val, path |-> {"try1", "try2"}]
    ELSE [tag |-> "ok",
          val |-> << IF sum_result.sgn > 0 THEN 0 ELSE 1 >>
                  \o Ones(t - 1) \o << max_k + 3 >>,
          path |-> {"try1", "try2", "saturate"}]

(* lines 366-375: both ranges failed, the largest number of the format     *)
fl4Retry(sum_result, t, max_k, try2) ==
    IF try2.tag # "ValueError"
    THEN [tag |-> try2.tag, val |-> try2.val, path |-> {"try1", "try2"}]
    ELSE [tag |-> "ok",
          val |-> << IF sum_result.sgn > 0 THEN 0 ELSE 1 >>
                  \o Ones(t - 1) \o << max_k >>,
          path |-> {"try1", "try2", "saturate"}]

(* fl4Try saturating after the first failure, without a second range      *)
fl4TryNoRetry(sum_result, t, min_k, max_k, try1) ==
    IF try1.tag # "ValueError"
    THEN [tag |-> try1.tag, val |-> try1.val, path |-> {"try1"}]
    ELSE [tag |-> "ok",
          val |-> << IF sum_result.sgn > 0 THEN 0 ELSE 1 >>
                  \o Ones(t - 1) \o << max_k >>,
          path |-> {"try1", "saturate"}]

(* lines 360-365: try1 is the result of fl3 on the first range             *)
fl4Try(sum_result, t, min_k, max_k, try1) ==
    IF try1.tag # "ValueError"
    THEN [tag |-> try1.tag, val |-> try1.val, path |-> {"try1"}]
    ELSE fl4Retry(sum_result, t, max_k,
                  fl3(sum_result, t, min_k - 3, max_k + 3))

(* fl4Sum giving the zero sum the characteristic of the operands           *)
fl4SumKeepsChar(sum_result, t, min_k, max_k) ==
    IF sum_result.sgn = 0
    THEN [tag |-> "ok", val |-> Zeros(t) \o << max_k - 2 >>,
          path |-> {"sum_zero"}]
    ELSE fl4Try(sum_result, t, min_k, max_k,
                fl3(sum_result, t, min_k, max_k))

(* lines 351-361: the sum, zero or encoded on the widened range            *)
fl4Sum(sum_result, t, min_k, max_k) ==
    IF sum_result.sgn = 0
    THEN [tag |-> "ok", val |-> Zeros(t) \o << 0 >>, path |-> {"sum_zero"}]
    ELSE fl4Try(sum_result, t, min_k, max_k,
                fl3(sum_result, t, min_k, max_k))

(* fl4 with the shortcuts for a zero operand before the validation of the  *)
(* mantissa bits and of the characteristics                                *)
fl4ZeroFirst(machine_vec1, machine_vec2) ==
    IF Len(machine_vec1) # Len(machine_vec2)
    THEN [tag |-> "ValueError", val |-> << >>, path |-> {"bad_len"}]
    ELSE IF Len(machine_vec1) < 2
    THEN [tag |-> "ValueError", val |-> << >>, path |-> {"too_short"}]
    ELSE IF AllZero(Mantissa(machine_vec1))
    THEN [tag |-> "ok", val |-> machine_vec2, path |-> {"zero1"}]
    ELSE IF AllZero(Mantissa(machine_vec2))
    THEN [tag |-> "ok", val |-> machine_vec1, path |-> {"zero2"}]
    ELSE IF \E i \in 1..(Len(machine_vec1) - 1) :
                ~IsBit(machine_vec1[i]) \/ ~IsBit(machine_vec2[i])
    THEN [tag |-> "ValueError", val |-> << >>, path |-> {"bad_bits"}]
    ELSE IF \/ ~IsInteger(Characteristic(machine_vec1))
            \/ ~IsInteger(Characteristic(machine_vec2))
    THEN [tag |-> "ValueError", val |-> << >>, path |-> {"bad_char"}]
    ELSE fl4Sum(FAdd(fl1(machine_vec1).val, fl1(machine_vec2).val),
                Len(machine_vec1) - 1,
                Min(Characteristic(machine_vec1),
                    Characteristic(machine_vec2)) - 2,
                Max(Characteristic(machine_vec1),
                    Characteristic(machine_vec2)) + 2)

fl4(machine_vec1, machine_vec2) ==
    IF Len(machine_vec1) # Len(machine_vec2)
    THEN [tag |-> "ValueError", val |-> << >>, path |-> {"bad_len"}]
    ELSE IF Len(machine_vec1) < 2
    THEN [tag |-> "ValueError", val |-> << >>, path |-> {"too_short"}]
    ELSE
    LET t  == Len(machine_vec1) - 1
        mantissa1 == Mantissa(machine_vec1)
        mantissa2 == Mantissa(machine_vec2)
        k1 == Characteristic(machine_vec1)
        k2 == Characteristic(machine_vec2)
    IN
    IF \E i \in 1..t : ~IsBit(mantissa1[i]) \/ ~IsBit(mantissa2[i])
    THEN [tag |-> "ValueError", val |-> << >>, path |-> {"bad_bits"}]
    ELSE IF ~IsInteger(k1) \/ ~IsInteger(k2)
    THEN [tag |-> "ValueError", val |-> << >>, path |-> {"bad_char"}]
    ELSE IF AllZero(mantissa1)
    THEN [tag |-> "ok", val |-> machine_vec2, path |-> {"zero1"}]
    ELSE IF AllZero(mantissa2)
    THEN [tag |-> "ok", val |-> machine_vec1, path |-> {"zero2"}]
    ELSE fl4Sum(FAdd(fl1(machine_vec1).val, fl1(machine_vec2).val), t,
                Min(k1, k2) - 2, Max(k1, k2) + 2)

-----------------------------------------------------------------------------
(* gaussel2 and gaussel3: a matrix is the sequence of its rows, each a     *)
(* sequence of binary64 numbers; rows and columns count from 1.            *)

(* np.finfo(float).eps                                                     *)
Eps == FDyadic(1, 52)

(* a result that is None: no matrix has 0 rows                             *)
None == << >>

(* np.eye(n)                                                               *)
Identity(n) ==
    [i \in 1..n |-> [j \in 1..n |-> IF i = j THEN FOne ELSE FZero]]

(* np.hstack([A, b])                                                       *)
Augment(A, b) == [i \in 1..Len(A) |-> A[i] \o b[i]]

(* M[[i, k]] = M[[k, i]]                                                   *)
SwapRows(M, i, k) == [M EXCEPT ![i] = M[k], ![k] = M[i]]

(* M[:, [i, j]] = M[:, [j, i]]                                             *)
SwapCols(M, i, j) ==
    [r \in 1..Len(M) |-> [M[r] EXCEPT ![i] = M[r][j], ![j] = M[r][i]]]

(* row_j - factor * row_i, the product rounded before the difference       *)
RowMinus(row_j, factor, row_i) ==
    [c \in 1..Len(row_j) |-> FSub(row_j[c], FMul(factor, row_i[c]))]

(* one row of the elimination below the diagonal entry i                   *)
EliminateRow(row_j, row_i, i) ==
    IF FGt(FAbs(row_j[i]), Eps)
    THEN RowMinus(row_j, FDiv(row_j[i], row_i[i]), row_i)
    ELSE row_j

(* the loop over the rows j > i; row j reads row i only                    *)
EliminateBelow(M, i) ==
    [j \in 1..Len(M) |-> IF j > i THEN EliminateRow(M[j], M[i], i) ELSE M[j]]

(* the search of full pivoting: the first entry, row by row, of the        *)
(* largest absolute value among the rows i..n and the columns i..m         *)
(* (the comparison is strict); (i, i) when every entry is 0                *)
FullPivot(augmented, i, n, m) ==
    CHOOSE p \in (i..n) \X (i..m) :
        \A q \in (i..n) \X (i..m) :
            \/ FLt(FAbs(augmented[q[1]][q[2]]), FAbs(augmented[p[1]][p[2]]))
            \/ /\ FAbs(augmented[q[1]][q[2]]) = FAbs(augmented[p[1]][p[2]])
               /\ (p[1] - 1) * m + p[2] <= (q[1] - 1) * m + q[2]

(* gaussel2, forward elimination with full pivoting on column i, the       *)
(* pivot p found: singular before the last column raises, in the last      *)
(* column ends the loop                                                    *)
RECURSIVE gaussel2Forward(_, _, _)
RECURSIVE gaussel2Pivot(_, _, _, _)

gaussel2Pivot(augmented, col_permutation, i, p) ==
    IF FLt(FAbs(augmented[p[1]][p[2]]), Eps)
    THEN IF i = Len(augmented)
         THEN [tag |-> "ok", augmented |-> augmented,
               col_permutation |-> col_permutation]
         ELSE [tag |-> "ValueError", augmented |-> augmented,
               col_permutation |-> col_permutation]
    ELSE gaussel2Forward(
             EliminateBelow(SwapCols(SwapRows(augmented, i, p[1]), i, p[2]),
                            i),
             [col_permutation EXCEPT ![i] = col_permutation[p[2]],
                                     ![p[2]] = col_permutation[i]],
             i + 1)

gaussel2Forward(augmented, col_permutation, i) ==
    IF i > Len(augmented)
    THEN [tag |-> "ok", augmented |-> augmented,
          col_permutation |-> col_permutation]
    ELSE gaussel2Pivot(augmented, col_permutation, i,
                       FullPivot(augmented, i, Len(augmented),
                                 Len(augmented)))

(* x_temp[i, col] -= augmented[i, j] * x_temp[j, col] for j = i + 1 .. m   *)
RECURSIVE BackInner(_, _, _, _)
BackInner(row, x_temp, j, acc) ==
    IF j > Len(x_temp) THEN acc
    ELSE BackInner(row, x_temp, j + 1, FSub(acc, FMul(row[j], x_temp[j])))

(* back substitution of one right-hand side, rows i down to 1; a row with  *)
(* a diagonal entry below eps keeps 0                                      *)
RECURSIVE BackSubstitute(_, _, _, _)
BackSubstitute(augmented, col, i, x_temp) ==
    IF i = 0 THEN x_temp
    ELSE IF FLt(FAbs(augmented[i][i]), Eps)
    THEN BackSubstitute(augmented, col, i - 1, x_temp)
    ELSE BackSubstitute(augmented, col, i - 1,
             [x_temp EXCEPT ![i] =
                 FDiv(BackInner(augmented[i], x_temp, i + 1,
                                augmented[i][Len(x_temp) + col]),
                      augmented[i][i])])

(* x[col_permutation[i]] = x_temp[i]                                       *)
UndoPermutation(col_permutation, x_temp) ==
    [c \in 1..Len(x_temp) |->
        x_temp[CHOOSE i \in 1..Len(x_temp) : col_permutation[i] = c]]

(* the solutions of the right-hand sides, one sequence per column of b     *)
gaussel2Columns(fwd, m, kb) ==
    [col \in 1..kb |->
        UndoPermutation(fwd.col_permutation,
            BackSubstitute(fwd.augmented, col, m, [i \in 1..m |-> FZero]))]

(* the matrix x from its columns                                           *)
gaussel2Solve(columns, m, kb) ==
    Ok([i \in 1..m |-> [col \in 1..kb |-> columns[col][i]]])

gaussel2Back(fwd, m, kb) ==
    IF fwd.tag = "ValueError" THEN Err("ValueError")
    ELSE gaussel2Solve(gaussel2Columns(fwd, m, kb), m, kb)

(* gaussel2(A, b, use_partial_pivoting=False) for a square A and a matrix  *)
(* b of as many rows, the call gaussel3 makes                              *)
gaussel2(A, b) ==
    gaussel2Back(gaussel2Forward(Augment(A, b), [i \in 1..Len(A) |-> i], 1),
                 Len(A), Len(b[1]))

(* what gaussel3 returns for a singular matrix                              *)
Singular(p) ==
    [tag |-> "ok",
     val |-> [A_inv |-> None, det_A |-> FZero, L |-> None, U |-> None],
     path |-> p \cup {"singular"}]

(* L[[i, k], :i] = L[[k, i], :i]: the rows i and k exchanged in the        *)
(* columns before i (none for the first row)                               *)
SwapLeft(L, i, k) ==
    [L EXCEPT ![i] = [c \in 1..Len(L) |-> IF c < i THEN L[k][c] ELSE L[i][c]],
              ![k] = [c \in 1..Len(L) |-> IF c < i THEN L[i][c] ELSE L[k][c]]]

(* L[j, i] = U[j, i] / U[i, i] for the rows j > i that are eliminated      *)
RecordFactors(L, U, i) ==
    [j \in 1..Len(L) |->
        IF j > i /\ FGt(FAbs(U[j][i]), Eps)
        THEN [L[j] EXCEPT ![i] = FDiv(U[j][i], U[i][i])]
        ELSE L[j]]

(* lines 95-101: the last diagonal entry, the test of the determinant      *)
gaussel3Finish(A_inv, U, L, det_A, p) ==
    IF FLt(FAbs(det_A), Eps) THEN Singular(p)
    ELSE [tag |-> "ok",
          val |-> [A_inv |-> A_inv, det_A |-> det_A, L |-> L, U |-> U],
          path |-> p]

RECURSIVE gaussel3LU(_, _, _, _, _, _)

(* lines 85-93: the pivot U[i, i] enters the determinant, the rows below   *)
(* are eliminated and their factors recorded                               *)
gaussel3Eliminate(A_inv, U, L, det_A, i, p) ==
    gaussel3LU(A_inv, EliminateBelow(U, i), RecordFactors(L, U, i),
               FMul(det_A, U[i][i]), i + 1, p)

(* lines 72-83: k is the first row below i with an entry above eps in      *)
(* column i, 0 when there is none                                          *)
gaussel3Swap(A_inv, U, L, det_A, i, p, k) ==
    IF k = 0 THEN Singular(p)
    ELSE gaussel3Eliminate(A_inv, SwapRows(U, i, k), SwapLeft(L, i, k),
                           FNeg(det_A), i, p \cup {"swap"})

FirstBelow(U, i) ==
    IF \A k \in (i + 1)..Len(U) : ~FGt(FAbs(U[k][i]), Eps) THEN 0
    ELSE CHOOSE k \in (i + 1)..Len(U) :
             /\ FGt(FAbs(U[k][i]), Eps)
             /\ \A kk \in (i + 1)..(k - 1) : ~FGt(FAbs(U[kk][i]), Eps)

(* lines 69-96: the loop over the columns i = 1 .. n - 1, then the last    *)
(* diagonal entry                                                          *)
gaussel3LU(A_inv, U, L, det_A, i, p) ==
    IF i > Len(U) - 1
    THEN gaussel3Finish(A_inv, U, L, FMul(det_A, U[Len(U)][Len(U)]), p)
    ELSE IF FLt(FAbs(U[i][i]), Eps)
    THEN gaussel3Swap(A_inv, U, L, det_A, i, p, FirstBelow(U, i))
    ELSE gaussel3Eliminate(A_inv, U, L, det_A, i, p)

(* lines 54-66 and 103-105: an exception of gaussel2 is caught and the     *)
(* matrix reported singular; gaussel2 returns no None and no empty array   *)
(* for n >= 1                                                              *)
gaussel3Inverse(A, inv) ==
    IF inv.tag = "ValueError" THEN Singular({"no_inverse"})
    ELSE gaussel3LU(inv.val, A, Identity(Len(A)), FOne, 1, {})

gaussel3(A) ==
    IF A # << >> /\ Len(A[1]) # Len(A)
    THEN [tag |-> "ValueError", val |-> << >>, path |-> {"not_square"}]
    ELSE IF A = << >>
    THEN [tag |-> "ValueError", val |-> << >>, path |-> {"empty"}]
    ELSE gaussel3Inverse(A, gaussel2(A, Identity(Len(A))))

-----------------------------------------------------------------------------
(* bisect: the function f is one of a family of Python callables on        *)
(* binary64 numbers; the products of the sign tests underflow as binary64  *)
(* products do.                                                            *)

(* m / 2^sh rounded to an integer, ties to even, for sh >= 1               *)
ShiftRoundEven(m, sh, q) ==
    IF \/ BigCmp(BigSub(m, BigShl(q, sh)), BigShl(<< 1 >>, sh - 1)) > 0
       \/ /\ BigCmp(BigSub(m, BigShl(q, sh)), BigShl(<< 1 >>, sh - 1)) = 0
          /\ q # << >>
          /\ q[1] % 2 = 1
    THEN BigAdd(q, << 1 >>)
    ELSE q

(* p: the product rounded to 53 bits.  Below 2^-1022 a binary64 product is *)
(* the multiple of 2^-1074 nearest to the exact product, 0 included        *)
FMulGradual(a, b, p) ==
    IF p.sgn = 0 \/ p.exp >= -1074 THEN p
    ELSE FRound(p.sgn,
                ShiftRoundEven(BigMul(a.man, b.man), -1074 - a.exp - b.exp,
                               BigShr(BigMul(a.man, b.man),
                                      -1074 - a.exp - b.exp)),
                -1074)

(* a * b of two Python floats                                              *)
FMulUnderflow(a, b) == FMulGradual(a, b, FMul(a, b))

(* 2^-540                                                                  *)
Tiny == FDyadic(1, 540)

(* the callables f                                                         *)
Functions == {"x*x-2", "x-1", "(x+1)*2**-540", "(x*x-2)*2**-540"}

Apply(f, x) ==
    CASE f = "x*x-2" -> FSub(FMul(x, x), FTwo)
      [] f = "x-1" -> FSub(x, FOne)
      [] f = "(x+1)*2**-540" -> FMul(FAdd(x, FOne), Tiny)
      [] f = "(x*x-2)*2**-540" -> FMul(FSub(FMul(x, x), FTwo), Tiny)

(* lines 53-71: fa and fb are f(a) and f(b); without a return the result   *)
(* has the tag "none" and the loop starts                                  *)
bisectStart(a, b, fa, fb) ==
    IF FGt(FMulUnderflow(fa, fb), FZero)
    THEN [tag |-> "ValueError", val |-> << >>, path |-> {"no_sign_change"}]
    ELSE IF fa = FZero
    THEN [tag |-> "ok", val |-> << a, FZero >>, path |-> {"root_at_a"}]
    ELSE IF fb = FZero
    THEN [tag |-> "ok", val |-> << b, FZero >>, path |-> {"root_at_b"}]
    ELSE [tag |-> "none", val |-> << >>, path |-> {}]

(* lines 84-92: the half that is kept, c the midpoint and fc = f(c) # 0    *)
bisectHalf(l, c, fc) ==
    IF FLt(FMulUnderflow(l.fa, fc), FZero)
    THEN [a |-> l.a, b |-> c, fa |-> l.fa, fb |-> fc, i |-> l.i + 1]
    ELSE [a |-> c, b |-> l.b, fa |-> fc, fb |-> l.fb, i |-> l.i + 1]

(* lines 94-105: the midpoint and the half-width of the last interval      *)
bisectFinish(l) ==
    [tag |-> "ok",
     val |-> << FDiv(FAdd(l.a, l.b), FTwo), FDiv(FSub(l.b, l.a), FTwo) >>,
     path |-> {"finished"}]

-----------------------------------------------------------------------------
(* The functions keep no state between calls.  A behaviour is a sequence   *)
(* of calls: each call draws its arguments, runs to completion and leaves  *)
(* its result; Return makes room for the next call.  A call of bisect      *)
(* takes one step per iteration of its loop, its local variables in local. *)

Chars == -MaxK..MaxK

(* well-formed machine numbers with t mantissa bits                        *)
Vectors(t) == {m \o << k >> : m \in [1..t -> {0, 1}], k \in Chars}
ValidVecs == UNION {Vectors(t) : t \in 1..MaxT}

(* characteristics and parameters as the callers may pass them            *)
AnyChars == Chars \cup {NonInteger}

(* vectors as fl1 may receive them: too short, with an entry 2, with a     *)
(* characteristic that is not an integer                                   *)
AnyVecs == UNION {{m \o << k >> : m \in [1..n -> {0, 1, 2}], k \in AnyChars} :
                      n \in 0..MaxT}

(* operands of fl4: the well-formed ones and some that are not             *)
Operands ==
    ValidVecs \cup {<< 0 >>, << 2, 0 >>, << 0, NonInteger >>,
                    << 1, NonInteger >>, << 0, 1, NonInteger >>}

(* two pairs of wider operands whose sums are small after cancellation:   *)
(* (1 + 2^-4) - 1 with 5 mantissa bits and (1 + 2^-8) - 1 with 9           *)
CancelPairs ==
    {<< << 0, 0, 0, 0, 1, 0 >>, << 1, 0, 0, 0, 0, 0 >> >>,
     << << 0, 0, 0, 0, 0, 0, 0, 0, 1, 0 >>,
        << 1, 0, 0, 0, 0, 0, 0, 0, 0, 0 >> >>}

OperandPairs == (Operands \X Operands) \cup CancelPairs

(* a complex number, 1 + 1j                                                *)
Complex == [re |-> FOne, im |-> FOne]

(* real inputs of fl3: a grid of quotients, every decoded machine number   *)
(* (the bounds eps_0 and M_inf of every set among them), the binary64      *)
(* value of each power of 3 and the one next above it, of either sign     *)
RealInputs ==
    {FDiv(FFromInt(n), FFromInt(RDen)) : n \in -RMax..RMax}
    \cup {fl1(v).val : v \in ValidVecs}
    \cup {Pow3F(k) : k \in -MaxK..MaxK2}
    \cup {FNeg(Pow3F(k)) : k \in -MaxK..MaxK2}
    \cup {FNextUp(Pow3F(k)) : k \in -MaxK..MaxK2}
    \cup {FNeg(FNextUp(Pow3F(k))) : k \in -MaxK..MaxK2}

(* a matrix of integers as np.array(A, dtype=float) converts it            *)
FloatMatrix(M) == [i \in 1..Len(M) |-> [j \in 1..Len(M[i]) |-> FFromInt(M[i][j])]]

MaxEntry == 2

(* every 2 x 2 matrix with entries in -1..MaxEntry                         *)
SmallMatrices ==
    {<< << a, b >>, << c, d >> >> :
        a \in -1..MaxEntry, b \in -1..MaxEntry,
        c \in -1..MaxEntry, d \in -1..MaxEntry}

(* 1 x 1 and 3 x 3 matrices: regular, with a zero pivot in the first and   *)
(* in the second column, singular; a matrix that is not square; the empty  *)
(* matrix                                                                  *)
OtherMatrices ==
    {<< << 0 >> >>, << << 2 >> >>,
     << << 2, 1, -1 >>, << -3, -1, 2 >>, << -2, 1, 2 >> >>,
     << << 4, 1, 2 >>, << 1, 5, 3 >>, << 2, 3, 6 >> >>,
     << << 0, 2, 3 >>, << 4, 5, 6 >>, << 7, 8, 0 >> >>,
     << << 1, 1, 1 >>, << 2, 2, 3 >>, << 3, 4, 1 >> >>,
     << << 1, 2, 3 >>, << 4, 5, 6 >>, << 7, 8, 9 >> >>,
     << << 0, 0, 1 >>, << 0, 0, 2 >>, << 1, 1, 1 >> >>,
     << << 1, 2, 3 >>, << 4, 5, 6 >> >>,
     << >>}

Matrices == SmallMatrices \cup OtherMatrices

(* iteration counts of bisect: 0..MaxN and one run of LongRun iterations   *)
MaxN == 3
LongRun == 60

(* the intervals [a, b] of bisect, one of them with a > b                  *)
Brackets == {<< 0, 1 >>, << 1, 2 >>, << 0, 2 >>, << 0, 3 >>, << 2, 3 >>,
             << 2, 0 >>}

VARIABLES pc, op, args, ret, local

vars == << pc, op, args, ret, local >>

NoLocal == [none |-> 0]

NoArgs == [none |-> 0]
NoRet == [tag |-> "none", val |-> << >>, path |-> {}]

Init ==
    /\ pc = "idle"
    /\ op = "none"
    /\ args = NoArgs
    /\ ret = NoRet
    /\ local = NoLocal

WithPath(r) == [tag |-> r.tag, val |-> r.val, path |-> {}]

CallFl1 ==
    /\ pc = "idle"
    /\ \E v \in AnyVecs :
          /\ args' = [v |-> v]
          /\ ret' = WithPath(fl1(v))
    /\ op' = "fl1"
    /\ pc' = "done"
    /\ UNCHANGED local

CallFl2 ==
    /\ pc = "idle"
    /\ \E t \in 0..MaxT \cup {NonInteger}, k1 \in AnyChars, k2 \in AnyChars :
          /\ args' = [t |-> t, k1 |-> k1, k2 |-> k2]
          /\ ret' = WithPath(fl2(t, k1, k2))
    /\ op' = "fl2"
    /\ pc' = "done"
    /\ UNCHANGED local

CallFl3 ==
    /\ pc = "idle"
    /\ \E r \in RealInputs \cup {Complex},
          t \in 0..MaxT \cup {NonInteger},
          k1 \in AnyChars,
          k2 \in (-MaxK..MaxK2) \cup {NonInteger} :
          /\ args' = [r |-> r, t |-> t, k1 |-> k1, k2 |-> k2]
          /\ ret' = fl3(r, t, k1, k2)
    /\ op' = "fl3"
    /\ pc' = "done"
    /\ UNCHANGED local

CallFl4 ==
    /\ pc = "idle"
    /\ \E p \in OperandPairs :
          /\ args' = [a |-> p[1], b |-> p[2]]
          /\ ret' = fl4(p[1], p[2])
    /\ op' = "fl4"
    /\ pc' = "done"
    /\ UNCHANGED local

CallGaussel3 ==
    /\ pc = "idle"
    /\ \E A \in Matrices :
          /\ args' = [A |-> FloatMatrix(A)]
          /\ ret' = gaussel3(FloatMatrix(A))
    /\ op' = "gaussel3"
    /\ pc' = "done"
    /\ UNCHANGED local

(* bisect(f, a, b, n) up to its loop                                       *)
CallBisect ==
    /\ pc = "idle"
    /\ \E f \in Functions, ab \in Brackets, n \in 0..MaxN \cup {LongRun} :
          /\ args' = [f |-> f, a |-> FFromInt(ab[1]), b |-> FFromInt(ab[2]),
                      n |-> n]
          /\ ret' = bisectStart(FFromInt(ab[1]), FFromInt(ab[2]),
                                Apply(f, FFromInt(ab[1])),
                                Apply(f, FFromInt(ab[2])))
          /\ local' = [a |-> FFromInt(ab[1]), b |-> FFromInt(ab[2]),
                       fa |-> Apply(f, FFromInt(ab[1])),
                       fb |-> Apply(f, FFromInt(ab[2])), i |-> 1]
    /\ op' = "bisect"
    /\ pc' = IF ret'.tag = "none" THEN "loop" ELSE "done"

(* one iteration of the loop, lines 74-92: the midpoint is an exact root   *)
(* or one half is kept                                                     *)
BisectStep ==
    /\ pc = "loop"
    /\ local.i <= args.n
    /\ IF Apply(args.f, FDiv(FAdd(local.a, local.b), FTwo)) = FZero
       THEN /\ ret' = [tag |-> "ok",
                       val |-> << FDiv(FAdd(local.a, local.b), FTwo), FZero >>,
                       path |-> {"root_at_c"}]
            /\ pc' = "done"
            /\ UNCHANGED local
       ELSE /\ local' = bisectHalf(local,
                            FDiv(FAdd(local.a, local.b), FTwo),
                            Apply(args.f, FDiv(FAdd(local.a, local.b), FTwo)))
            /\ UNCHANGED << pc, ret >>
    /\ UNCHANGED << op, args >>

(* the loop has run n times, lines 94-105                                  *)
BisectFinish ==
    /\ pc = "loop"
    /\ local.i > args.n
    /\ ret' = bisectFinish(local)
    /\ pc' = "done"
    /\ UNCHANGED << op, args, local >>

Return ==
    /\ pc = "done"
    /\ pc' = "idle"
    /\ op' = "none"
    /\ args' = NoArgs
    /\ ret' = NoRet
    /\ local' = NoLocal

Next ==
    \/ CallFl1 \/ CallFl2 \/ CallFl3 \/ CallFl4 \/ CallGaussel3
    \/ CallBisect \/ BisectStep \/ BisectFinish
    \/ Return

Spec == Init /\ [][Next]_vars

NextDecode == CallFl1 \/ CallFl2 \/ Return
SpecDecode == Init /\ [][NextDecode]_vars

NextEncode == CallFl3 \/ Return
SpecEncode == Init /\ [][NextEncode]_vars

NextAdd == CallFl4 \/ Return
SpecAdd == Init /\ [][NextAdd]_vars

NextLU == CallGaussel3 \/ Return
SpecLU == Init /\ [][NextLU]_vars

NextBisect == CallBisect \/ BisectStep \/ BisectFinish \/ Return
SpecBisect == Init /\ [][NextBisect]_vars

-----------------------------------------------------------------------------
(* Properties of the four functions, each stated on the result of a call.  *)

Called(f) == pc = "done" /\ op = f

(* a machine number as the callers are to pass it: binary mantissa         *)
(* entries, integer characteristic                                         *)
WellFormed(v) ==
    /\ Len(v) >= 2
    /\ \A i \in 1..(Len(v) - 1) : v[i] \in {0, 1}
    /\ IsInteger(v[Len(v)])

ZeroVec(v) == \A i \in 1..(Len(v) - 1) : v[i] = 0

(* |x - r| / |r| against 1/2 for binary64 x and r # 0, in exact            *)
(* arithmetic: -1, 0, 1 as it is below, equal to, above 1/2                *)
RelErrAgainstHalf(x, r) ==
    LET e    == IF x.sgn = 0 THEN r.exp ELSE Min(x.exp, r.exp)
        rm   == BigShl(r.man, r.exp - e)
        xm   == IF x.sgn = 0 THEN << >> ELSE BigShl(x.man, x.exp - e)
        diff == IF x.sgn = 0 THEN rm
                ELSE IF x.sgn # r.sgn THEN BigAdd(xm, rm)
                ELSE IF BigCmp(xm, rm) >= 0 THEN BigSub(xm, rm)
                ELSE BigSub(rm, xm)
    IN  BigCmp(BigAdd(diff, diff), rm)

(* parameters as fl2 and fl3 accept them: integers, t >= 1, k1 < k2        *)
ValidParams(t, k1, k2) ==
    /\ IsInteger(t) /\ IsInteger(k1) /\ IsInteger(k2)
    /\ t >= 1
    /\ k1 < k2

(* eps_0 <= |r| <= M_inf for the set of (t, k1, k2)                        *)
InRange(r, t, k1, k2) ==
    LET set == fl2Memo(t, k1, k2)
    IN  /\ set.tag = "ok"
        /\ FGe(FAbs(r), set.val.eps_0)
        /\ FLe(FAbs(r), set.val.M_inf)

(* a call of fl3 with t >= 2, k1 < k2 and r within the bounds of the set   *)
EncodeInRange ==
    /\ Called("fl3")
    /\ ValidParams(args.t, args.k1, args.k2)
    /\ IsRealScalar(args.r)
    /\ args.t >= 2
    /\ InRange(args.r, args.t, args.k1, args.k2)

(* a call of fl4 with two well-formed operands of equal length             *)
AddValid ==
    /\ Called("fl4")
    /\ WellFormed(args.a)
    /\ WellFormed(args.b)
    /\ Len(args.a) = Len(args.b)

(* C1: for t >= 2, k1 < k2 and eps_0 <= |r| <= M_inf, fl3 succeeds and the *)
(* relative error of the decoded result, |fl1(fl3(r)) - r| / |r|, is at    *)
(* most 0.5.                                                               *)
C1_RoundTripBound ==
    EncodeInRange =>
        /\ ret.tag = "ok"
        /\ RelErrAgainstHalf(fl1(ret.val).val, args.r) <= 0

(* the fraction bits v[2..i] of a vector of t mantissa bits, read as the   *)
(* numerator of a fraction over 2^(t-1)                                    *)
RECURSIVE FracNumerator(_, _)
FracNumerator(v, i) ==
    IF i < 2 THEN 0
    ELSE v[i] * Pow2(Len(v) - 1 - i) + FracNumerator(v, i - 1)

(* s * (1 + sum of bit[i] * 2^-i) * 3^c in closed form: the mantissa as    *)
(* one dyadic number, times the power                                      *)
DecodeFormula(v) ==
    LET t == Len(v) - 1
        s == IF v[1] = 0 THEN 1 ELSE -1
    IN  FMul(FDyadic(s * (Pow2(t - 1) + FracNumerator(v, t)), t - 1),
             Pow3F(v[Len(v)]))

(* C2: fl1 of a well-formed vector whose mantissa bits are not all 0 is    *)
(* s * (1 + sum over i = 1..t-1 of bit[i] * 2^-i) * 3^c with s = +1 for    *)
(* bit[0] = 0 and -1 for bit[0] = 1.                                       *)
C2_DecodeFormula ==
    (Called("fl1") /\ WellFormed(args.v) /\ ~ZeroVec(args.v)) =>
        /\ ret.tag = "ok"
        /\ ret.val = DecodeFormula(args.v)

C2_Witness ==
    /\ Called("fl1")
    /\ WellFormed(args.v)
    /\ Len(args.v) >= 3
    /\ args.v[1] = 1
    /\ args.v[2] = 1
    /\ args.v[Len(args.v)] < 0
    /\ ret.tag = "ok"
    /\ ret.val.sgn < 0

(* C3 as stated: for every well-formed X, zero or not, and every zero      *)
(* vector Z of the same length, fl4(X, Z) and fl4(Z, X) both return X,     *)
(* characteristic included.                                                *)
C3_AddZeroReturnsOther ==
    AddValid =>
        /\ ZeroVec(args.b) => (ret.tag = "ok" /\ ret.val = args.a)
        /\ ZeroVec(args.a) => (ret.tag = "ok" /\ ret.val = args.b)

(* C3 amended: for every well-formed X whose mantissa bits are not all 0   *)
(* and every zero vector Z of the same length, fl4(X, Z) and fl4(Z, X)     *)
(* both return X; when the first operand is a zero vector, fl4 returns its *)
(* second operand, so of two zero vectors the second one.                  *)
C3_AddZeroIdentity ==
    AddValid =>
        /\ (ZeroVec(args.b) /\ ~ZeroVec(args.a)) =>
               (ret.tag = "ok" /\ ret.val = args.a)
        /\ ZeroVec(args.a) => (ret.tag = "ok" /\ ret.val = args.b)

C3_Witness ==
    /\ AddValid
    /\ ZeroVec(args.b)
    /\ ~ZeroVec(args.a)
    /\ args.b[Len(args.b)] # args.a[Len(args.a)]
    /\ ret.val = args.a

(* C4: for t >= 2, k1 < k2 and r # 0, fl3 raises the range error exactly   *)
(* when |r| < eps_0 or |r| > M_inf of fl2(t, k1, k2); at |r| = eps_0 and   *)
(* at |r| = M_inf it returns a vector, and no r out of range gets one.     *)
C4_BoundaryRejection ==
    (/\ Called("fl3")
     /\ ValidParams(args.t, args.k1, args.k2)
     /\ IsRealScalar(args.r)
     /\ args.t >= 2
     /\ args.r.sgn # 0) =>
        LET set == fl2Memo(args.t, args.k1, args.k2).val
        IN  /\ ret.tag \in {"ok", "ValueError"}
            /\ ret.tag = "ValueError" <=>
                   \/ FLt(FAbs(args.r), set.eps_0)
                   \/ FGt(FAbs(args.r), set.M_inf)

C4_Witness ==
    /\ Called("fl3")
    /\ ValidParams(args.t, args.k1, args.k2)
    /\ IsRealScalar(args.r)
    /\ args.t >= 2
    /\ FAbs(args.r) = fl2Memo(args.t, args.k1, args.k2).val.eps_0
    /\ ret.tag = "ok"

(* C5: for every t >= 1 and k1 < k2, fl2 returns with M_inf > 0,           *)
(* eps_0 > 0, eps_0 <= M_inf and num_elements >= 2.                        *)
C5_SetBounds ==
    (Called("fl2") /\ ValidParams(args.t, args.k1, args.k2)) =>
        /\ ret.tag = "ok"
        /\ ret.val.M_inf.sgn > 0
        /\ ret.val.eps_0.sgn > 0
        /\ FLe(ret.val.eps_0, ret.val.M_inf)
        /\ ret.val.num_elements >= 2

(* C6: for two well-formed operands of equal length, t >= 1 mantissa bits  *)
(* each, fl4 returns, without raising, a vector of that length with t      *)
(* entries in {0, 1} followed by an integer.                               *)
C6_AddTotal ==
    AddValid =>
        /\ ret.tag = "ok"
        /\ Len(ret.val) = Len(args.a)
        /\ \A i \in 1..(Len(ret.val) - 1) : ret.val[i] \in {0, 1}
        /\ ret.val[Len(ret.val)] \in Int
        /\ IsInteger(ret.val[Len(ret.val)])

C6_Witness ==
    /\ AddValid
    /\ "saturate" \in ret.path
    /\ ret.tag = "ok"
    /\ Len(ret.val) = Len(args.a)

(* C7: for two well-formed operands of equal length with a sum             *)
(* s = fl1(A) + fl1(B) # 0, the relative error |fl1(fl4(A, B)) - s| / |s|  *)
(* is below 0.5.                                                           *)
C7_AdditionAccuracy ==
    AddValid =>
        LET s == FAdd(fl1(args.a).val, fl1(args.b).val)
        IN  s.sgn # 0 =>
                /\ ret.tag = "ok"
                /\ RelErrAgainstHalf(fl1(ret.val).val, s) < 0

(* the values of the machine numbers with t mantissa bits and              *)
(* characteristic k                                                        *)
GridPoints ==
    [t \in 2..MaxT, k \in -MaxK..MaxK2 |->
        {fl1(m \o << k >>).val : m \in [1..t -> {0, 1}]}]

OnGrid(r, t, k1, k2) == \E k \in k1..k2 : r \in GridPoints[t, k]

(* C8: for t >= 2, k1 < k2 and r = fl1 of a machine number with            *)
(* characteristic in [k1, k2], eps_0 <= |r| <= M_inf, fl1(fl3(r)) is r.    *)
C8_ExactOnGrid ==
    (EncodeInRange /\ OnGrid(args.r, args.t, args.k1, args.k2)) =>
        /\ ret.tag = "ok"
        /\ fl1(ret.val).val = args.r

(* C9: for two well-formed operands of equal length, fl1(fl4(A, B)) and    *)
(* fl1(fl4(B, A)) are the same number, zero operands and the saturated     *)
(* result included.                                                        *)
C9_AddCommutes ==
    AddValid =>
        LET swapped == fl4(args.b, args.a)
        IN  /\ ret.tag = "ok"
            /\ swapped.tag = "ok"
            /\ fl1(ret.val).val = fl1(swapped.val).val

C9_Witness ==
    /\ AddValid
    /\ ~ZeroVec(args.a)
    /\ ~ZeroVec(args.b)
    /\ args.a[Len(args.a)] # args.b[Len(args.b)]
    /\ "try1" \in ret.path
    /\ "saturate" \notin ret.path
    /\ ret.val # args.a
    /\ ret.val # args.b
    /\ fl1(ret.val).val = fl1(fl4(args.b, args.a).val).val

(* C10: for t >= 2, k1 < k2 and eps_0 <= |r| <= M_inf, the vector of fl3   *)
(* has mantissa bit 0 equal to 0 for r > 0 and to 1 for r < 0, and its     *)
(* value under fl1 is non-zero with the sign of r.                         *)
C10_SignCorrect ==
    EncodeInRange =>
        /\ ret.tag = "ok"
        /\ ret.val[1] = (IF args.r.sgn > 0 THEN 0 ELSE 1)
        /\ fl1(ret.val).val.sgn = args.r.sgn

(* the binary64 value nearest to 3^c                                       *)
Pow3Value(c) ==
    IF c >= 0 THEN FFromInt(Pow3Tab[c + 1])
    ELSE FDiv(FOne, FFromInt(Pow3Tab[1 - c]))

(* sign bit 1 and every fraction bit 0                                     *)
MinusPower(v) == v[1] = 1 /\ \A i \in 2..(Len(v) - 1) : v[i] = 0

(* C11: fl1 of a vector of length >= 2 whose mantissa bits are all 0 is    *)
(* exactly 0 for every integer characteristic; a vector with sign bit 1    *)
(* and all fraction bits 0 is not a zero and decodes to -3^characteristic. *)
C11_DecodeZero ==
    (Called("fl1") /\ WellFormed(args.v)) =>
        /\ ZeroVec(args.v) => (ret.tag = "ok" /\ ret.val = FZero)
        /\ MinusPower(args.v) =>
               /\ ret.tag = "ok"
               /\ ret.val = FNeg(Pow3Value(args.v[Len(args.v)]))

C11_Witness ==
    /\ Called("fl1")
    /\ WellFormed(args.v)
    /\ Len(args.v) >= 3
    /\ MinusPower(args.v)
    /\ args.v[Len(args.v)] < 0
    /\ ret.tag = "ok"
    /\ ret.val.sgn < 0

(* C12: for every integer t >= 1 and integers k1 < k2, fl3(0, t, k1, k2)   *)
(* returns t mantissa bits 0 followed by the characteristic 0, without     *)
(* calling fl2 and without raising.                                        *)
C12_EncodeZero ==
    (/\ Called("fl3")
     /\ ValidParams(args.t, args.k1, args.k2)
     /\ IsRealScalar(args.r)
     /\ args.r.sgn = 0) =>
        /\ ret.tag = "ok"
        /\ ret.val = [i \in 1..(args.t + 1) |-> 0]
        /\ ret.path = {"zero"}

(* fl3 of 0 for a set that fl2 cannot characterize                        *)
C12_Witness ==
    /\ Called("fl3")
    /\ ValidParams(args.t, args.k1, args.k2)
    /\ IsRealScalar(args.r)
    /\ args.r.sgn = 0
    /\ args.k2 < 0
    /\ fl2Memo(args.t, args.k1, args.k2).tag # "ok"
    /\ ret.tag = "ok"

(* a vector of t + 1 entries, the first t of them bits, the last one an    *)
(* integer                                                                 *)
VectorOfWidth(v, t) ==
    /\ Len(v) = t + 1
    /\ \A i \in 1..t : v[i] \in {0, 1}
    /\ v[t + 1] \in Int
    /\ IsInteger(v[t + 1])

(* C13 as stated: every vector that fl3(r, t, k1, k2) returns, r = 0       *)
(* included, has t + 1 entries, the first t each 0 or 1, the last an       *)
(* integer k with k1 <= k <= k2.                                           *)
C13_EncodeOutputInSystem ==
    (Called("fl3") /\ ret.tag = "ok") =>
        /\ VectorOfWidth(ret.val, args.t)
        /\ args.k1 <= ret.val[args.t + 1]
        /\ ret.val[args.t + 1] <= args.k2

(* C13 amended: every vector that fl3(r, t, k1, k2) returns has t + 1      *)
(* entries, the first t each 0 or 1, the last an integer k; for r # 0,     *)
(* k1 <= k <= k2; for r = 0, k = 0, inside [k1, k2] or not.                *)
C13_EncodeOutputShape ==
    (Called("fl3") /\ ret.tag = "ok") =>
        /\ VectorOfWidth(ret.val, args.t)
        /\ args.r.sgn # 0 =>
               /\ args.k1 <= ret.val[args.t + 1]
               /\ ret.val[args.t + 1] <= args.k2
        /\ args.r.sgn = 0 => ret.val[args.t + 1] = 0

(* a result whose characteristic the carry raised to k2                    *)
C13_Witness ==
    /\ Called("fl3")
    /\ ret.tag = "ok"
    /\ args.r.sgn # 0
    /\ "k_inc" \in ret.path
    /\ ret.val[args.t + 1] = args.k2
    /\ VectorOfWidth(ret.val, args.t)

(* the machine numbers of the set (t, k1, k2) that are not zero, as        *)
(* vectors, and their values                                               *)
SetVectors(t, k1, k2) ==
    {m \o << k >> : m \in {mm \in [1..t -> {0, 1}] : ~ZeroVec(mm \o << 0 >>)},
                    k \in k1..k2}
SetValues(t, k1, k2) == {fl1(v).val : v \in SetVectors(t, k1, k2)}

(* a call of fl2 with integers t >= 2 and k1 < k2                          *)
CharacterizeValid ==
    /\ Called("fl2")
    /\ ValidParams(args.t, args.k1, args.k2)
    /\ args.t >= 2

(* C14: for t >= 2 and integers k1 < k2, fl2 returns                       *)
(* M_inf = (2 - 2^-(t-1)) * 3^k2, the value of the mantissa [0,1,...,1] at *)
(* the characteristic k2 and the largest absolute value of the set.        *)
C14_MInf ==
    CharacterizeValid =>
        /\ ret.tag = "ok"
        /\ ret.val.M_inf =
               FMul(FDyadic(Pow2(args.t) - 1, args.t - 1), Pow3Value(args.k2))
        /\ ret.val.M_inf =
               fl1(<< 0 >> \o Ones(args.t - 1) \o << args.k2 >>).val
        /\ \A x \in SetValues(args.t, args.k1, args.k2) :
               FLe(FAbs(x), ret.val.M_inf)

C14_Witness ==
    /\ CharacterizeValid
    /\ args.t >= 3
    /\ args.k2 < 0
    /\ ret.tag = "ok"
    /\ ret.val.M_inf = fl1(<< 0 >> \o Ones(args.t - 1) \o << args.k2 >>).val

(* C15: for t >= 2 and integers k1 < k2, fl2 returns eps_0 equal to the    *)
(* value of the mantissa [0,0,...,0,1] at the characteristic k1, that is   *)
(* (1 + 2^-(t-1)) * 3^k1, and no positive value of the set is smaller.     *)
C15_Eps0 ==
    CharacterizeValid =>
        /\ ret.tag = "ok"
        /\ ret.val.eps_0 =
               fl1(Zeros(args.t - 1) \o << 1, args.k1 >>).val
        /\ ret.val.eps_0 =
               FMul(FDyadic(Pow2(args.t - 1) + 1, args.t - 1),
                    Pow3Value(args.k1))
        /\ \A x \in SetValues(args.t, args.k1, args.k2) :
               x.sgn > 0 => FGe(x, ret.val.eps_0)

C15_Witness ==
    /\ CharacterizeValid
    /\ args.t >= 3
    /\ args.k1 > 0
    /\ ret.tag = "ok"
    /\ ret.val.eps_0 = fl1(Zeros(args.t - 1) \o << 1, args.k1 >>).val

(* the values of the set above 1                                           *)
AboveOne(t, k1, k2) == {x \in SetValues(t, k1, k2) : FGt(x, FOne)}

(* C16: for t >= 2 and integers k1 < k2, fl2 returns eps_1 = v - 1 with v  *)
(* the smallest value of the set above 1 when there is one, and NaN,       *)
(* without raising, when there is none; NaN is returned exactly when       *)
(* k2 < 0.                                                                 *)
C16_Eps1 ==
    CharacterizeValid =>
        /\ ret.tag = "ok"
        /\ (ret.val.eps_1 = FNaN) <=> (args.k2 < 0)
        /\ (AboveOne(args.t, args.k1, args.k2) = {}) <=> (args.k2 < 0)
        /\ AboveOne(args.t, args.k1, args.k2) # {} =>
               \E v \in AboveOne(args.t, args.k1, args.k2) :
                   /\ ret.val.eps_1 = FSub(v, FOne)
                   /\ \A w \in AboveOne(args.t, args.k1, args.k2) : FLe(v, w)

C16_Witness ==
    /\ CharacterizeValid
    /\ args.k2 < 0
    /\ AboveOne(args.t, args.k1, args.k2) = {}
    /\ ret.tag = "ok"
    /\ ret.val.eps_1 = FNaN

(* a mantissa entry of v other than 0 and 1                                *)
BadBits(v) == \E i \in 1..(Len(v) - 1) : v[i] \notin {0, 1}

(* C17: fl1 raises and returns no value for a vector with fewer than 2     *)
(* entries, for a vector with a mantissa entry other than 0 or 1, and for  *)
(* a vector whose characteristic is not an integer; the tests come before  *)
(* the test for zero, so an all-zero mantissa with a characteristic that   *)
(* is not an integer raises instead of giving 0.                           *)
C17_DecodeValidation ==
    (/\ Called("fl1")
     /\ \/ Len(args.v) < 2
        \/ BadBits(args.v)
        \/ ~IsInteger(args.v[Len(args.v)])) =>
        /\ ret.tag = "ValueError"
        /\ ret.val = << >>

C17_Witness ==
    /\ Called("fl1")
    /\ Len(args.v) >= 3
    /\ ZeroVec(args.v)
    /\ ~IsInteger(args.v[Len(args.v)])
    /\ ret.tag = "ValueError"

(* parameters that fl2 and fl3 are to reject                               *)
InvalidParams(t, k1, k2) ==
    \/ ~IsInteger(t)
    \/ t <= 0
    \/ ~IsInteger(k1)
    \/ ~IsInteger(k2)
    \/ k1 >= k2

(* C18: fl2 and fl3 raise ValueError when t is not a positive integer,     *)
(* when k1 or k2 is not an integer, or when k1 >= k2; fl3 also when r is   *)
(* not a real scalar; in fl3 the tests come before the test for zero, so   *)
(* fl3(0, t, k1, k2) with invalid t, k1 or k2 raises.                      *)
C18_ParameterValidation ==
    /\ (Called("fl2") /\ InvalidParams(args.t, args.k1, args.k2)) =>
           (ret.tag = "ValueError" /\ ret.val = << >>)
    /\ (/\ Called("fl3")
        /\ \/ InvalidParams(args.t, args.k1, args.k2)
           \/ ~IsRealScalar(args.r)) =>
           (ret.tag = "ValueError" /\ ret.val = << >>)

C18_Witness ==
    /\ Called("fl3")
    /\ IsRealScalar(args.r)
    /\ args.r.sgn = 0
    /\ IsInteger(args.t)
    /\ args.t >= 1
    /\ ~IsInteger(args.k2)
    /\ ret.tag = "ValueError"

(* C19: fl4 raises when the operands differ in length, when an operand has *)
(* a mantissa entry other than 0 or 1, or when an operand has a            *)
(* characteristic that is not an integer; the tests come before the        *)
(* shortcuts for a zero operand, so an invalid operand is rejected also    *)
(* when the other operand is zero.                                         *)
C19_AddValidation ==
    (/\ Called("fl4")
     /\ \/ Len(args.a) # Len(args.b)
        \/ BadBits(args.a)
        \/ BadBits(args.b)
        \/ ~IsInteger(args.a[Len(args.a)])
        \/ ~IsInteger(args.b[Len(args.b)])) =>
        /\ ret.tag = "ValueError"
        /\ ret.val = << >>

C19_Witness ==
    /\ Called("fl4")
    /\ WellFormed(args.a)
    /\ ZeroVec(args.a)
    /\ Len(args.b) = Len(args.a)
    /\ ~BadBits(args.b)
    /\ ~IsInteger(args.b[Len(args.b)])
    /\ ret.tag = "ValueError"

(* C20: for well-formed operands A, B of equal length, neither of them     *)
(* zero, with fl1(A) + fl1(B) = 0, fl4 returns t mantissa bits 0 followed  *)
(* by the characteristic 0, without calling fl3, whatever the              *)
(* characteristics of the operands.                                        *)
C20_SumToZero ==
    (/\ AddValid
     /\ ~ZeroVec(args.a)
     /\ ~ZeroVec(args.b)
     /\ fl1(args.a).val = FNeg(fl1(args.b).val)) =>
        /\ ret.tag = "ok"
        /\ ret.val = [i \in 1..Len(args.a) |-> 0]
        /\ ret.path = {"sum_zero"}

C20_Witness ==
    /\ AddValid
    /\ ~ZeroVec(args.a)
    /\ ~ZeroVec(args.b)
    /\ fl1(args.a).val = FNeg(fl1(args.b).val)
    /\ Len(args.a) >= 3
    /\ args.a[Len(args.a)] > 0
    /\ ret.tag = "ok"
    /\ ret.val[Len(ret.val)] = 0

(* a call of fl4 with well-formed non-zero operands and a non-zero sum     *)
AddEncoded ==
    /\ AddValid
    /\ ~ZeroVec(args.a)
    /\ ~ZeroVec(args.b)
    /\ fl1(args.a).val # FNeg(fl1(args.b).val)

AddSum == FAdd(fl1(args.a).val, fl1(args.b).val)
AddT == Len(args.a) - 1
AddMin == Min(Characteristic(args.a), Characteristic(args.b))
AddMax == Max(Characteristic(args.a), Characteristic(args.b))

(* the vector with the sign of s, every fraction bit 1, characteristic c   *)
Saturated(s, t, c) ==
    << IF s.sgn > 0 THEN 0 ELSE 1 >> \o [i \in 1..(t - 1) |-> 1] \o << c >>

(* the result of fl4 given those of fl3 on the two ranges                  *)
AddOrder(first, second) ==
    IF first.tag = "ok"
    THEN ret.val = first.val /\ ret.path = {"try1"}
    ELSE IF second.tag = "ok"
    THEN ret.val = second.val /\ ret.path = {"try1", "try2"}
    ELSE /\ ret.val = Saturated(AddSum, AddT, AddMax + 2)
         /\ ret.path = {"try1", "try2", "saturate"}

(* C22: for non-zero operands with non-zero sum s, fl4 returns             *)
(* fl3(s, t, m - 2, M + 2) when that call succeeds; only when it fails,    *)
(* fl3(s, t, m - 5, M + 5) when that succeeds; only when both fail, the    *)
(* saturated vector.  No other call of fl3 is made.                        *)
C22_ReencodingOrder ==
    AddEncoded =>
        /\ ret.tag = "ok"
        /\ AddOrder(fl3(AddSum, AddT, AddMin - 2, AddMax + 2),
                    fl3(AddSum, AddT, AddMin - 5, AddMax + 5))

(* the first range fails and the second one succeeds                       *)
C22_Witness ==
    /\ AddEncoded
    /\ ret.tag = "ok"
    /\ ret.path = {"try1", "try2"}
    /\ fl3(AddSum, AddT, AddMin - 2, AddMax + 2).tag = "ValueError"
    /\ ret.val = fl3(AddSum, AddT, AddMin - 5, AddMax + 5).val

(* C23: for operands of at least 2 mantissa bits, fl4 returns the          *)
(* saturated vector only when |fl1(A) + fl1(B)| is above M_inf of the      *)
(* range [m - 5, M + 5]; a sum too small for the range is never replaced   *)
(* by the largest magnitude.                                               *)
C23_SaturationOnlyOnOverflow ==
    (AddEncoded /\ AddT >= 2 /\ "saturate" \in ret.path) =>
        FGt(FAbs(AddSum),
            fl2Memo(AddT, AddMin - 5, AddMax + 5).val.M_inf)

(* C24: when both calls of fl3 fail, fl4 returns the sign bit of the sum   *)
(* (0 for a positive sum, 1 for a negative one), t - 1 fraction bits 1     *)
(* and the characteristic max(k_A, k_B) + 2.                               *)
C24_SaturatedValue ==
    (/\ AddEncoded
     /\ fl3(AddSum, AddT, AddMin - 2, AddMax + 2).tag = "ValueError"
     /\ fl3(AddSum, AddT, AddMin - 5, AddMax + 5).tag = "ValueError") =>
        /\ ret.tag = "ok"
        /\ Len(ret.val) = AddT + 1
        /\ ret.val[1] = (IF FGt(AddSum, FZero) THEN 0 ELSE 1)
        /\ \A i \in 2..AddT : ret.val[i] = 1
        /\ ret.val[AddT + 1] = AddMax + 2

(* a sum saturates with at least one fraction bit                          *)
C24_Witness ==
    /\ AddEncoded
    /\ "saturate" \in ret.path
    /\ AddT >= 2
    /\ ret.val[AddT] = 1
    /\ ret.val[AddT + 1] = AddMax + 2

(* the integer k with 3^k <= |r| < 3^(k+1), the powers being the binary64  *)
(* values of 3**k                                                          *)
ExactFloorLog3(r) ==
    CHOOSE k \in -LogRange..LogRange :
        FGe(FAbs(r), Pow3F(k)) /\ FLt(FAbs(r), Pow3F(k + 1))

(* floor(q * 2^n) for a binary64 q > 0, a number below 2^LIMB              *)
ScaledFloor(q, n) ==
    LET m == IF q.exp + n >= 0 THEN BigShl(q.man, q.exp + n)
             ELSE BigShr(q.man, -(q.exp + n))
    IN  IF m = << >> THEN 0 ELSE m[1]

(* floor(|r| / 3^k * 2^(t-1)), the quotient |r| / 3^k in binary64          *)
ScaledQuotient(r, t, k) == ScaledFloor(FDiv(FAbs(r), Pow3F(k)), t - 1)

(* the fraction bits by truncation, as a numerator over 2^(t-1): the bits  *)
(* of |r| / 3^k - 1 below 2, every bit 1 from 2 on                         *)
TruncatedFraction(r, t, k) ==
    Min(ScaledQuotient(r, t, k), 2 * Pow2(t - 1) - 1) - Pow2(t - 1)

(* C25: for t >= 2, k1 < k2 and eps_0 <= |r| <= M_inf, the characteristic  *)
(* of fl3's vector is the k with 3^k <= |r| < 3^(k+1); when the rounding   *)
(* branch is not taken, the fraction bits are the first t - 1 bits of      *)
(* |r| / 3^k - 1 (all 1 from |r| / 3^k = 2 on) and |fl1(fl3(r))| <= |r|.   *)
C25_CharacteristicAndTruncation ==
    EncodeInRange =>
        /\ ret.tag = "ok"
        /\ ret.val[args.t + 1] = ExactFloorLog3(args.r)
        /\ "round" \notin ret.path =>
              /\ FracNumerator(ret.val, args.t)
                    = TruncatedFraction(args.r, args.t,
                                        ExactFloorLog3(args.r))
              /\ FLe(FAbs(fl1(ret.val).val), FAbs(args.r))

(* r > 0 whose truncated fraction bits are all 0:                          *)
(* 3^k <= r < (1 + 2^-(t-1)) * 3^k                                         *)
TentativeZero(r, t) ==
    /\ r.sgn = 1
    /\ TruncatedFraction(r, t, ExactFloorLog3(r)) = 0

(* C26: for t >= 2, k1 < k2 and eps_0 <= |r| <= M_inf, fl3 takes its       *)
(* rounding branch exactly when r > 0 and                                  *)
(* 3^k <= r < (1 + 2^-(t-1)) * 3^k; the branch then only sets the last     *)
(* fraction bit; the carry loop, the increment of the characteristic and   *)
(* the reset of the fraction bits are never executed.                      *)
C26_RoundingCorrection ==
    EncodeInRange =>
        /\ ret.tag = "ok"
        /\ "round" \in ret.path <=> TentativeZero(args.r, args.t)
        /\ "round" \in ret.path => "set_last" \in ret.path
        /\ "ripple" \notin ret.path
        /\ "k_inc" \notin ret.path

DecodedVectors ==
    [v \in UNION {SetVectors(t, -MaxK, MaxK2) : t \in 2..MaxT} |->
        fl1(v).val]

(* C28: for t >= 2, k1 < k2 and a machine number X of the set, mantissa    *)
(* not all zero, fl3(fl1(X), t, k1, k2) is X entry by entry, but for       *)
(* X = [1, 0, ..., 0, k1], where fl3 raises ValueError.                    *)
C28_EncodeAfterDecode ==
    (/\ Called("fl3")
     /\ ValidParams(args.t, args.k1, args.k2)
     /\ IsRealScalar(args.r)
     /\ args.t >= 2) =>
        \A X \in SetVectors(args.t, args.k1, args.k2) :
            DecodedVectors[X] = args.r =>
                IF MinusPower(X) /\ X[args.t + 1] = args.k1
                THEN ret.tag = "ValueError"
                ELSE ret.tag = "ok" /\ ret.val = X

(* the number of real inputs below x                                       *)
RankTab == [x \in RealInputs |-> Cardinality({y \in RealInputs : FLt(y, x)})]

(* the real inputs in increasing order                                     *)
SortedInputs ==
    [i \in 1..Cardinality(RealInputs) |->
        CHOOSE x \in RealInputs : RankTab[x] = i - 1]

(* the largest of the first i real inputs that is within the bounds of     *)
(* the set (t, k1, k2); FNaN when there is none                            *)
RECURSIVE PrevInRange(_, _, _, _)
PrevInRange(i, t, k1, k2) ==
    IF i = 0 THEN FNaN
    ELSE IF InRange(SortedInputs[i], t, k1, k2) THEN SortedInputs[i]
    ELSE PrevInRange(i - 1, t, k1, k2)

(* fl1(fl3(r1)) <= fl1(fl3(r2)) where both calls succeed, r2 the call made *)
DecodedBelow(r1, t, k1, k2) ==
    LET first == fl3(r1, t, k1, k2)
    IN  (first.tag = "ok" /\ ret.tag = "ok") =>
            FLe(fl1(first.val).val, fl1(ret.val).val)

(* C29: for t >= 2, k1 < k2 and r1 <= r2 with eps_0 <= |r| <= M_inf for    *)
(* both, fl1(fl3(r1)) <= fl1(fl3(r2)).  Stated for r2 the argument of the  *)
(* call and r1 the next smaller real within the bounds; the order of every *)
(* pair follows from the order of the neighbours.                          *)
C29_EncodeMonotone ==
    EncodeInRange =>
        LET r1 == PrevInRange(RankTab[args.r], args.t, args.k1, args.k2)
        IN  r1 # FNaN => DecodedBelow(r1, args.t, args.k1, args.k2)

(* the tolerance of the comparisons of matrices, 2^-30                     *)
Tol == FDyadic(1, 30)

Near(x, y) == FLt(FAbs(FSub(x, y)), Tol)

(* sum of L[i][k] * U[k][j] over k, in binary64                            *)
RECURSIVE DotFrom(_, _, _, _, _, _)
DotFrom(L, U, i, j, k, acc) ==
    IF k > Len(U) THEN acc
    ELSE DotFrom(L, U, i, j, k + 1, FAdd(acc, FMul(L[i][k], U[k][j])))

UnitLower(L) ==
    \A i \in 1..Len(L) :
        /\ L[i][i] = FOne
        /\ \A j \in (i + 1)..Len(L) : L[i][j] = FZero

UpperTriangular(U) ==
    \A i \in 1..Len(U) : \A j \in 1..(i - 1) : Near(U[i][j], FZero)

ProductIs(L, U, A) ==
    \A i \in 1..Len(A) : \A j \in 1..Len(A) :
        Near(DotFrom(L, U, i, j, 1, FZero), A[i][j])

(* C21: when gaussel3 returns L and U that are not None, L is lower        *)
(* triangular with diagonal 1, U is upper triangular and L * U is A (the   *)
(* comparisons of binary64 entries up to 2^-30), row swaps included.       *)
C21_LUFactorisation ==
    (Called("gaussel3") /\ ret.tag = "ok" /\ ret.val.L # None) =>
        /\ ret.val.U # None
        /\ UnitLower(ret.val.L)
        /\ UpperTriangular(ret.val.U)
        /\ ProductIs(ret.val.L, ret.val.U, args.A)

(* a call of bisect with a < b, running or returned                        *)
BisectCall == op = "bisect" /\ FLt(args.a, args.b)

(* the initial width b0 - a0 divided by 2^j                                *)
WidthOver(j) == FMul(FSub(args.b, args.a), FDyadic(1, j))

(* C30: bisect(f, a, b, n) with a < b raises ValueError when f(a) and f(b) *)
(* are non-zero of the same sign and returns (endpoint, 0) when f is 0 at  *)
(* an endpoint; otherwise, at every iteration, f has opposite signs at the *)
(* ends of the bracket, the bracket is the initial one halved once per     *)
(* iteration made, at most n iterations are made, and without an exact     *)
(* zero at a midpoint the call returns the midpoint of the last bracket    *)
(* and epsilon = (b0 - a0) / 2^(n+1).                                      *)
C30_BracketInvariant ==
    BisectCall =>
        /\ Apply(args.f, args.a).sgn * Apply(args.f, args.b).sgn > 0 =>
              (pc = "done" /\ ret.tag = "ValueError")
        /\ Apply(args.f, args.a) = FZero =>
              (pc = "done" /\ ret.tag = "ok" /\ ret.val = << args.a, FZero >>)
        /\ (Apply(args.f, args.a) # FZero /\ Apply(args.f, args.b) = FZero) =>
              (pc = "done" /\ ret.tag = "ok" /\ ret.val = << args.b, FZero >>)
        /\ pc = "loop" =>
              /\ local.fa.sgn * local.fb.sgn < 0
              /\ local.i <= args.n + 1
              /\ FSub(local.b, local.a) = WidthOver(local.i - 1)
        /\ (pc = "done" /\ "finished" \in ret.path) =>
              /\ ret.val[1] = FDiv(FAdd(local.a, local.b), FTwo)
              /\ ret.val[2] = WidthOver(args.n + 1)

=============================================================================
